---- MODULE Spec2Model ----
(***************************************************************************)
(* Model of lotto_logic.py: the retrying fetch client (safe_get), the      *)
(* Illinois draw store (clean_il_data / load_il_data / save_il_data), the  *)
(* backfill controller (update_il_data_to_current) and the Illinois        *)
(* history reader (fetch_draws_il).                                        *)
(*                                                                         *)
(* Python values are tagged records [t, items]:                            *)
(*   t = "dict"   items = sequence of <<key, value>> in insertion order   *)
(*   t = "list"   items = sequence of members [k, v]                       *)
(*   t = "none"   a falsy value that is neither dict nor list (None)       *)
(*   t = "scalar" a truthy value that is neither dict nor list ("abc")     *)
(* A member [k, v] is an int, a bool, a str or a float.                    *)
(* JSON documents use the same shape with the tags "object", "array",      *)
(* "null", "string" and member kinds "number", "true", "false", "string",  *)
(* "real".                                                                 *)
(***************************************************************************)
EXTENDS Integers, Sequences, FiniteSets, TLC

VARIABLES
    pc,        \* position of the process
    file,      \* illinois_draws.json: [st, doc]
    data,      \* the store held in memory by the running function
    X,         \* store examples: the argument given to clean_il_data
    cleaned,   \* store examples: clean_il_data(X)
    loaded,    \* store examples: what load_il_data returned
    req,       \* fetch examples: what the upstream answers, and the arguments
    res,       \* fetch examples: what safe_get and its caller returned
    env,       \* backfill: datetime.today() and IL_BACKFILL_DAYS
    upstream,  \* backfill: what lottery.net answers for each URL
    cur,       \* backfill: the loop variables date, pick, draw_type
    call,      \* backfill: how many fetch_draws_il calls were started
    events,    \* backfill: the fetches and saves of the call in progress
    hist,      \* backfill: the file and store at earlier points of the run
    ret        \* backfill: what update_il_data_to_current and fetch_draws_il returned

store_vars == <<X, cleaned, loaded>>
fetch_vars == <<req, res>>
backfill_vars == <<env, upstream, cur, call, events, hist, ret>>
vars == <<pc, file, data, X, cleaned, loaded, req, res,
          env, upstream, cur, call, events, hist, ret>>

-----------------------------------------------------------------------------
(* Python values *)

PyDict(items) == [t |-> "dict", items |-> items]
PyList(items) == [t |-> "list", items |-> items]
PyNone == [t |-> "none", items |-> <<>>]
PyScalar == [t |-> "scalar", items |-> <<>>]

PyInt(n) == [k |-> "int", v |-> n]
PyTrue == [k |-> "bool", v |-> 1]
PyStr == [k |-> "str", v |-> 0]
PyFloat(n) == [k |-> "float", v |-> n]

\* bool(v)
Truthy(v) == IF v.t \in {"dict", "list"} THEN v.items # <<>> ELSE v.t = "scalar"

\* `v or {}`
OrEmptyDict(v) == IF Truthy(v) THEN v ELSE PyDict(<<>>)

Keys(items) == {items[i][1] : i \in DOMAIN items}
HasKey(items, key) == \E i \in DOMAIN items : items[i][1] = key
GetKey(items, key) == items[CHOOSE i \in DOMAIN items : items[i][1] = key][2]

\* d[key] = value on a dict's items: an existing key keeps its position
SetKey(items, key, value) ==
    IF HasKey(items, key)
    THEN [i \in DOMAIN items |->
            IF items[i][1] = key THEN <<key, value>> ELSE items[i]]
    ELSE Append(items, <<key, value>>)

\* d.setdefault(key, {})
SetDefault(items, key) ==
    IF HasKey(items, key) THEN items ELSE Append(items, <<key, PyDict(<<>>)>>)

\* str < str on date keys: a key "MM-DD-YYYY" is held as <<MM, DD, YYYY>>,
\* and with both fields zero-padded the character order is the order of
\* the tuple, field by field
StrLess(a, b) ==
    \/ a[1] < b[1]
    \/ a[1] = b[1] /\ a[2] < b[2]
    \/ a[1] = b[1] /\ a[2] = b[2] /\ a[3] < b[3]

\* sorted(d.items()): the keys of a dict are distinct, so the key decides
RECURSIVE sorted(_)
sorted(items) ==
    IF items = <<>> THEN <<>>
    ELSE LET m == CHOOSE i \in DOMAIN items :
                    \A j \in DOMAIN items : j = i \/ StrLess(items[i][1], items[j][1])
             rest == [j \in 1..(Len(items) - 1) |->
                        IF j < m THEN items[j] ELSE items[j + 1]]
         IN <<items[m]>> \o sorted(rest)

\* Python ==: numbers compare by value (True == 1), dicts regardless of order
MemberEq(a, b) ==
    IF a.k = "str" \/ b.k = "str" THEN a.k = b.k /\ a.v = b.v ELSE a.v = b.v

RECURSIVE PyEq(_, _)
PyEq(a, b) ==
    /\ a.t = b.t
    /\ a.t = "list" =>
         /\ Len(a.items) = Len(b.items)
         /\ \A i \in DOMAIN a.items : MemberEq(a.items[i], b.items[i])
    /\ a.t = "dict" =>
         /\ Keys(a.items) = Keys(b.items)
         /\ \A key \in Keys(a.items) :
              PyEq(GetKey(a.items, key), GetKey(b.items, key))

-----------------------------------------------------------------------------
(* clean_il_data *)

isinstance_int(n) == n.k \in {"int", "bool"}

\* 4 for a key that contains "4", otherwise 3
pick_of_game_four_first(game) ==
    IF \E i \in DOMAIN game : game[i] = "4" THEN 4 ELSE 3

\* a game key is the sequence of its characters
pick_of_game(game) == IF \E i \in DOMAIN game : game[i] = "3" THEN 3 ELSE 4

\* the comprehension and the length test of one slot
nums_of(numbers) == SelectSeq(numbers.items, isinstance_int)

\* the length of the slot value taken instead of the length of nums
slot_is_valid_len_of_numbers(numbers, pick) ==
    numbers.t = "list" /\ Len(numbers.items) = pick

slot_is_valid(numbers, pick) ==
    numbers.t = "list" /\ Len(nums_of(numbers)) = pick

\* the loop over draws.items(), building valid_draws
RECURSIVE valid_draws_of(_, _, _)
valid_draws_of(draws, pick, valid) ==
    IF draws = <<>> THEN valid
    ELSE LET draw_type == Head(draws)[1]
             numbers == Head(draws)[2]
         IN valid_draws_of(Tail(draws), pick,
                IF slot_is_valid(numbers, pick)
                THEN SetKey(valid, draw_type, PyList(nums_of(numbers)))
                ELSE valid)

\* the loop over dates.items(), building cleaned[game] before it is sorted
RECURSIVE clean_dates(_, _, _)
clean_dates(dates, pick, acc) ==
    IF dates = <<>> THEN acc
    ELSE LET date == Head(dates)[1]
             draws == Head(dates)[2]
             valid == IF draws.t = "dict"
                      THEN valid_draws_of(draws.items, pick, <<>>)
                      ELSE <<>>
         IN clean_dates(Tail(dates), pick,
                IF valid # <<>> THEN SetKey(acc, date, PyDict(valid)) ELSE acc)

\* the loop over data.items()
RECURSIVE clean_games(_, _)
clean_games(games, acc) ==
    IF games = <<>> THEN acc
    ELSE LET game == Head(games)[1]
             dates == OrEmptyDict(Head(games)[2])
         IN clean_games(Tail(games),
                SetKey(acc, game,
                    PyDict(sorted(clean_dates(dates.items, pick_of_game(game), <<>>)))))

\* .items() of a value that is no dict raises AttributeError
clean_raises(d) ==
    \/ OrEmptyDict(d).t # "dict"
    \/ \E i \in DOMAIN OrEmptyDict(d).items :
         OrEmptyDict(OrEmptyDict(d).items[i][2]).t # "dict"

clean_il_data(d) == PyDict(clean_games(OrEmptyDict(d).items, <<>>))

-----------------------------------------------------------------------------
(* json.dump / json.load and the cache file *)

json_member(m) ==
    CASE m.k = "int" -> [k |-> "number", v |-> m.v]
      [] m.k = "bool" -> [k |-> (IF m.v = 1 THEN "true" ELSE "false"), v |-> 0]
      [] m.k = "float" -> [k |-> "real", v |-> m.v]
      [] OTHER -> [k |-> "string", v |-> m.v]

\* json.load reading every number as a float
py_member_floats(j) ==
    CASE j.k \in {"number", "real"} -> [k |-> "float", v |-> j.v]
      [] j.k = "true" -> [k |-> "bool", v |-> 1]
      [] j.k = "false" -> [k |-> "bool", v |-> 0]
      [] OTHER -> [k |-> "str", v |-> j.v]

py_member(j) ==
    CASE j.k = "number" -> [k |-> "int", v |-> j.v]
      [] j.k = "true" -> [k |-> "bool", v |-> 1]
      [] j.k = "false" -> [k |-> "bool", v |-> 0]
      [] j.k = "real" -> [k |-> "float", v |-> j.v]
      [] OTHER -> [k |-> "str", v |-> j.v]

RECURSIVE json_dump(_)
json_dump(v) ==
    CASE v.t = "dict" ->
            [t |-> "object",
             items |-> [i \in DOMAIN v.items |->
                          <<v.items[i][1], json_dump(v.items[i][2])>>]]
      [] v.t = "list" ->
            [t |-> "array",
             items |-> [i \in DOMAIN v.items |-> json_member(v.items[i])]]
      [] v.t = "none" -> [t |-> "null", items |-> <<>>]
      [] OTHER -> [t |-> "string", items |-> <<>>]

RECURSIVE json_load(_)
json_load(j) ==
    CASE j.t = "object" ->
            [t |-> "dict",
             items |-> [i \in DOMAIN j.items |->
                          <<j.items[i][1], json_load(j.items[i][2])>>]]
      [] j.t = "array" ->
            [t |-> "list",
             items |-> [i \in DOMAIN j.items |-> py_member(j.items[i])]]
      [] j.t = "null" -> PyNone
      [] OTHER -> PyScalar

NoDoc == [t |-> "null", items |-> <<>>]
FileAbsent == [st |-> "absent", doc |-> NoDoc]
\* a file whose text is no JSON document: empty, cut short, or garbage
FileUnparsable == [st |-> "unparsable", doc |-> NoDoc]
FileJson(doc) == [st |-> "json", doc |-> doc]

\* what load_il_data hands to clean_il_data
load_raw(f) == IF f.st = "json" THEN json_load(f.doc) ELSE PyDict(<<>>)

\* no exists test and no try around json.load
load_raises_unguarded(f) == f.st # "json" \/ clean_raises(load_raw(f))

\* load_il_data raises: only clean_il_data lies outside its try
load_raises(f) == clean_raises(load_raw(f))
load_il_data(f) == clean_il_data(load_raw(f))

\* save_il_data: open(IL_DATA_FILE, "w") empties the file, json.dump fills it
save_raises(d) == clean_raises(d)
save_opened(f) == FileUnparsable
save_written(d) == FileJson(json_dump(clean_il_data(d)))

-----------------------------------------------------------------------------
(* safe_get and fetch_il_draw *)

\* What one requests.get does: it returns a response with a status, or
\* raises requests.RequestException (kind "error").
Statuses == {200, 403, 404, 500}
Outcomes ==
    [kind : {"resp"}, status : Statuses] \cup [kind : {"error"}, status : {0}]

max_retries == 3

NoResp == [kind |-> "none", status |-> 0, n |-> 0]

\* a delay after the last attempt too
sleeps_after_always(attempt) == attempt <= max_retries

\* `if attempt < max_retries: time.sleep(3)`
sleeps_after(attempt) == attempt < max_retries

\* The loop of safe_get from `attempt` on; a response carries the number n
\* of the attempt that obtained it.  log lists the calls made: "get", "sleep".
\* last_resp forgotten when a later attempt raises
last_resp_after_reset(o, resp, last_resp) ==
    IF o.kind = "resp" THEN resp ELSE NoResp

\* `last_resp = resp` runs when requests.get returned, not when it raised
last_resp_after(o, resp, last_resp) ==
    IF o.kind = "resp" THEN resp ELSE last_resp

RECURSIVE safe_get_from(_, _, _, _)
safe_get_from(outs, attempt, last_resp, log) ==
    IF attempt > max_retries THEN [ret |-> last_resp, log |-> log]
    ELSE LET o == outs[attempt]
             resp == [kind |-> "resp", status |-> o.status, n |-> attempt]
             got == Append(log, "get")
         IN IF o.kind = "resp" /\ o.status = 200
            THEN [ret |-> resp, log |-> got]
            ELSE safe_get_from(outs, attempt + 1,
                    last_resp_after(o, resp, last_resp),
                    IF sleeps_after(attempt) THEN Append(got, "sleep") ELSE got)

safe_get(outs) == safe_get_from(outs, 1, NoResp, <<>>)

\* The li.ball elements of a page: the stripped text of each is a run of
\* decimal digits (k = "digits", v = its int), a text str.isdigit accepts
\* and int rejects, such as the superscript two (k = "sup"), or something
\* else (k = "other").
Ball(n) == [k |-> "digits", v |-> n]
SupBall == [k |-> "sup", v |-> 2]
OtherBall == [k |-> "other", v |-> 0]
is_digit_ball(b) == b.k \in {"digits", "sup"}

\* int(text) raises ValueError
int_raises(b) == b.k # "digits"

\* the list comprehension over the texts raises on the first text that
\* passes isdigit and fails int
tokens_raise(texts) ==
    \E i \in DOMAIN texts : is_digit_ball(texts[i]) /\ int_raises(texts[i])

\* [int(n.text.strip()) for n in balls if n.text.strip().isdigit()]
numbers_of_balls(balls) ==
    LET kept == SelectSeq(balls, is_digit_ball)
    IN [i \in DOMAIN kept |-> PyInt(kept[i].v)]

\* fetch_il_draw on the response safe_get returned, page being its body
il_draw_of(resp, page, pick) ==
    IF resp.kind = "none" THEN PyNone
    ELSE IF resp.status = 404 THEN PyNone
    ELSE IF resp.status # 200 THEN PyNone
    ELSE IF Len(numbers_of_balls(page)) = pick
         THEN PyList(numbers_of_balls(page))
         ELSE PyNone

fetch_il_draw(outs, page, pick) == il_draw_of(safe_get(outs).ret, page, pick)

\* fetch_il_draw ends in ValueError: the page was parsed and int raised
il_draw_raises(resp, page) ==
    resp.kind # "none" /\ resp.status = 200 /\ tokens_raise(page)

fetch_il_draw_raises(outs, page) == il_draw_raises(safe_get(outs).ret, page)

\* fetch_draws: `if resp is None or resp.status_code != 200: continue`
year_skipped(resp) == resp.kind = "none" \/ resp.status # 200

\* the fetch examples before a call
NoReq == [outs |-> <<>>, page |-> <<>>, rows |-> <<>>, draw_type |-> "", pick |-> 0]
NoRes == [caller |-> "", sg |-> [ret |-> NoResp, log |-> <<>>],
          numbers |-> PyNone, skipped |-> FALSE, out |-> <<>>, raised |-> FALSE]

-----------------------------------------------------------------------------
(* Keys and example values *)

\* str(pick) for a one-digit pick, and f"pick{pick}"
digit_char(n) == <<"0", "1", "2", "3", "4", "5", "6", "7", "8", "9">>[n + 1]
game_key(pick) == <<"p", "i", "c", "k", digit_char(pick)>>

picks == <<3, 4>>

\* evening before midday
draw_types_swapped == <<"evening", "midday">>

draw_types == <<"midday", "evening">>

\* date keys of two consecutive days in different years
ExampleDateKeys == {<<12, 31, 2023>>, <<1, 1, 2024>>}

ExampleSlotValues ==
    { PyList(<<PyInt(1), PyInt(2), PyInt(3)>>),
      PyList(<<PyInt(1), PyInt(2), PyInt(3), PyInt(4)>>),
      PyList(<<PyInt(1), PyStr, PyInt(2), PyInt(3)>>),
      PyList(<<PyInt(1), PyInt(2), PyStr>>),
      PyList(<<PyInt(1), PyInt(2), PyTrue>>),
      PyList(<<PyInt(1), PyFloat(2), PyInt(3), PyInt(4)>>),
      PyScalar }

\* game keys other than the two the program writes: one with neither digit
\* and one with both
OddGameKeys == {<<"d", "a", "i", "l", "y">>, <<"p", "i", "c", "k", "3", "4">>}

\* how many entries an example store is built from
MaxEntries == 2

\* one entry of an example store: a slot value, or a non-dict where the
\* dates of a game or the slots of a date are expected
ExampleEntries ==
    [kind : {"slot"}, game : {game_key(3), game_key(4)}, date : ExampleDateKeys,
     slot : {"midday", "evening"}, value : ExampleSlotValues]
    \cup [kind : {"dates"}, game : {game_key(3), game_key(4)},
          date : {<<1, 1, 2024>>}, slot : {"midday"}, value : {PyNone, PyScalar}]
    \cup [kind : {"draws"}, game : {game_key(3), game_key(4)},
          date : ExampleDateKeys, slot : {"midday"}, value : {PyScalar}]
    \cup [kind : {"slot"}, game : OddGameKeys, date : {<<1, 1, 2024>>},
          slot : {"midday"},
          value : {PyList(<<PyInt(1), PyInt(2), PyInt(3)>>),
                   PyList(<<PyInt(1), PyInt(2), PyInt(3), PyInt(4)>>)}]

\* the dict literal grown by one entry, in writing order
with_entry(items, e) ==
    IF e.kind = "dates" THEN SetKey(items, e.game, e.value)
    ELSE LET g == IF HasKey(items, e.game) /\ GetKey(items, e.game).t = "dict"
                  THEN GetKey(items, e.game).items ELSE <<>>
             d == IF HasKey(g, e.date) /\ GetKey(g, e.date).t = "dict"
                  THEN GetKey(g, e.date).items ELSE <<>>
         IN SetKey(items, e.game,
                PyDict(SetKey(g, e.date,
                    IF e.kind = "draws" THEN e.value
                    ELSE PyDict(SetKey(d, e.slot, e.value)))))

RECURSIVE store_of(_)
store_of(entries) ==
    IF entries = <<>> THEN <<>>
    ELSE with_entry(store_of(SubSeq(entries, 1, Len(entries) - 1)),
                    entries[Len(entries)])

ExampleStores ==
    {PyNone, PyScalar}
    \cup {PyDict(store_of(es)) :
            es \in UNION {[1..n -> ExampleEntries] : n \in 0..MaxEntries}}

-----------------------------------------------------------------------------
(* datetime, timedelta, strftime, strptime: a datetime is <<year, month, day>> *)

is_leap(y) == (y % 4 = 0 /\ y % 100 # 0) \/ y % 400 = 0

days_in_month(y, m) ==
    IF m = 2 THEN (IF is_leap(y) THEN 29 ELSE 28)
    ELSE IF m \in {4, 6, 9, 11} THEN 30 ELSE 31

\* date + timedelta(days=1)
next_day(d) ==
    IF d[3] < days_in_month(d[1], d[2]) THEN <<d[1], d[2], d[3] + 1>>
    ELSE IF d[2] < 12 THEN <<d[1], d[2] + 1, 1>>
    ELSE <<d[1] + 1, 1, 1>>

prev_day(d) ==
    IF d[3] > 1 THEN <<d[1], d[2], d[3] - 1>>
    ELSE IF d[2] > 1 THEN <<d[1], d[2] - 1, days_in_month(d[1], d[2] - 1)>>
    ELSE <<d[1] - 1, 12, 31>>

\* a window that starts one day earlier
RECURSIVE minus_days_one_more(_, _)
minus_days_one_more(d, n) ==
    IF n = 0 THEN prev_day(d) ELSE minus_days_one_more(prev_day(d), n - 1)

\* today - timedelta(days=n)
RECURSIVE minus_days(_, _)
minus_days(d, n) == IF n = 0 THEN d ELSE minus_days(prev_day(d), n - 1)

\* datetime <, <=
dt_less(a, b) ==
    \/ a[1] < b[1]
    \/ a[1] = b[1] /\ a[2] < b[2]
    \/ a[1] = b[1] /\ a[2] = b[2] /\ a[3] < b[3]

dt_le(a, b) == a = b \/ dt_less(a, b)

\* date.strftime("%m-%d-%Y") and datetime.strptime(date_str, "%m-%d-%Y")
strftime_key(d) == <<d[2], d[3], d[1]>>
strptime_key(key) == <<key[3], key[1], key[2]>>

-----------------------------------------------------------------------------
(* Store examples: clean_il_data(X), save_il_data of it, load_il_data *)

Blank == PyDict(<<>>)

NoCur == [date |-> <<0, 0, 0>>, p |-> 0, s |-> 0]
NoHist == [start |-> FileAbsent, loaded |-> Blank, durable |-> Blank,
           prev |-> [done |-> FALSE, file |-> FileAbsent, filled |-> {}]]
NoRet == [data |-> Blank, records |-> <<>>]

\* the backfill variables where no backfill runs
NoBackfill ==
    /\ env = [today |-> <<0, 0, 0>>, backfill_days |-> 0]
    /\ upstream = [down |-> {}, kind |-> "ok"]
    /\ cur = NoCur
    /\ call = 0
    /\ events = <<>>
    /\ hist = NoHist
    /\ ret = NoRet

InitStore ==
    /\ pc = "x_start"
    /\ X \in ExampleStores
    /\ file = FileAbsent
    /\ data = Blank
    /\ cleaned = Blank
    /\ loaded = Blank
    /\ req = NoReq
    /\ res = NoRes
    /\ NoBackfill

StoreClean ==
    /\ pc = "x_start"
    /\ IF clean_raises(X)
       THEN pc' = "x_raised" /\ UNCHANGED cleaned
       ELSE pc' = "x_cleaned" /\ cleaned' = clean_il_data(X)
    /\ UNCHANGED <<file, data, X, loaded, fetch_vars, backfill_vars>>

StoreSave ==
    /\ pc = "x_cleaned"
    /\ ~save_raises(cleaned)
    /\ file' = save_written(cleaned)
    /\ pc' = "x_saved"
    /\ UNCHANGED <<data, X, cleaned, loaded, fetch_vars, backfill_vars>>

StoreLoad ==
    /\ pc = "x_saved"
    /\ ~load_raises(file)
    /\ loaded' = load_il_data(file)
    /\ pc' = "x_loaded"
    /\ UNCHANGED <<file, data, X, cleaned, fetch_vars, backfill_vars>>

NextStore == StoreClean \/ StoreSave \/ StoreLoad

SpecStore == InitStore /\ [][NextStore]_vars

-----------------------------------------------------------------------------
(* fetch_draws: the table of one year *)

\* A tr of the page: tds is the number of its td cells; parts is the number
\* of whitespace-separated tokens of the first cell, of which the 2nd is the
\* month (1..12 for a full month name, 0 for any other text), the 3rd the
\* day and the 4th the year (0 for a text that is no number); tokens are the
\* whitespace-separated texts of the second cell.
Row(tds, parts, month, day, year, tokens) ==
    [tds |-> tds, parts |-> parts, month |-> month, day |-> day, year |-> year,
     tokens |-> tokens]

\* datetime.strptime(f"{month} {day}, {year}", "%B %d, %Y") raises ValueError
parse_base_date_raises(month, day, year) ==
    \/ month \notin 1..12
    \/ year \notin 1..9999
    \/ day \notin 1..days_in_month(year, month)

\* the dt parse_base_date returns
parse_base_date(month, day, year) == <<year, month, day>>

\* `if len(tds) < 2: continue` and `if len(parts) < 4: continue`
row_passed_over(row) == row.tds < 2 \/ row.parts < 4

row_raises(row) ==
    /\ ~row_passed_over(row)
    /\ \/ parse_base_date_raises(row.month, row.day, row.year)
       \/ tokens_raise(row.tokens)

\* `if len(digits) < pick: continue` not taken
row_appended(row, pick) ==
    /\ ~row_passed_over(row)
    /\ Len(numbers_of_balls(row.tokens)) >= pick

\* the record appended for a row: numbers = digits[:pick]
row_record(row, draw_type, pick) ==
    [dt |-> parse_base_date(row.month, row.day, row.year),
     date_str |-> <<row.month, row.day, row.year, draw_type>>,
     slot |-> draw_type,
     numbers |-> PyList(SubSeq(numbers_of_balls(row.tokens), 1, pick))]

\* the loop over the rows; raised when a row ended the loop in ValueError
RECURSIVE year_rows(_, _, _)
year_rows(rows, draw_type, pick) ==
    IF rows = <<>> THEN [out |-> <<>>, raised |-> FALSE]
    ELSE IF row_raises(Head(rows)) THEN [out |-> <<>>, raised |-> TRUE]
    ELSE LET rest == year_rows(Tail(rows), draw_type, pick)
         IN IF rest.raised THEN rest
            ELSE IF row_appended(Head(rows), pick)
                 THEN [rest EXCEPT !.out =
                          <<row_record(Head(rows), draw_type, pick)>> \o rest.out]
                 ELSE rest

\* out.sort(key=lambda r: r["dt"]): stable, ascending in dt
RECURSIVE sort_by_dt(_)
sort_by_dt(recs) ==
    IF recs = <<>> THEN <<>>
    ELSE LET r == recs[Len(recs)]
             front == sort_by_dt(SubSeq(recs, 1, Len(recs) - 1))
             k == Cardinality({i \in DOMAIN front : dt_le(front[i].dt, r.dt)})
         IN SubSeq(front, 1, k) \o <<r>> \o SubSeq(front, k + 1, Len(front))

\* fetch_draws for a state other than Chicago over one year, on the response
\* safe_get returned, rows being the tr elements of its body
fetch_draws_year(resp, rows, draw_type, pick) ==
    IF year_skipped(resp) THEN [out |-> <<>>, raised |-> FALSE]
    ELSE LET y == year_rows(rows, draw_type, pick)
         IN [out |-> sort_by_dt(y.out), raised |-> y.raised]

-----------------------------------------------------------------------------
(* Fetch examples: one safe_get call by each of its two callers *)

ExamplePages ==
    { <<Ball(1), Ball(2), Ball(3)>>,
      <<Ball(1), Ball(2), Ball(3), Ball(4)>>,
      <<Ball(1), Ball(2)>>,
      <<Ball(1), OtherBall, Ball(2), Ball(3)>>,
      <<Ball(1), Ball(2), Ball(12)>>,
      <<Ball(1), Ball(2), SupBall>> }

HeaderRow == Row(0, 0, 0, 0, 0, <<>>)
Jan1Row == Row(2, 4, 1, 1, 2024, <<Ball(1), Ball(2), Ball(3), Ball(4)>>)
Dec31Row == Row(2, 4, 12, 31, 2023, <<Ball(4), OtherBall, Ball(5), Ball(6), Ball(7)>>)

ExampleTables ==
    { <<HeaderRow, Jan1Row, Dec31Row>>,
      <<Jan1Row, Row(2, 4, 1, 2, 2024, <<Ball(1), Ball(2)>>)>>,
      <<Row(2, 3, 1, 2, 2024, <<Ball(1), Ball(2), Ball(3), Ball(4)>>), Jan1Row>>,
      <<Jan1Row, Row(2, 4, 0, 2, 2024, <<Ball(1), Ball(2), Ball(3), Ball(4)>>)>>,
      <<Row(2, 4, 2, 30, 2024, <<Ball(1)>>), Jan1Row>>,
      <<Row(3, 5, 1, 2, 2024, <<Ball(1), Ball(2), Ball(12), Ball(3)>>)>>,
      <<Row(2, 4, 1, 2, 2024, <<Ball(1), Ball(2), Ball(3), SupBall>>)>> }

InitFetch ==
    /\ pc = "f_start"
    /\ req \in [outs : [1..max_retries -> Outcomes], page : ExamplePages,
                 rows : ExampleTables,
                 draw_type : {draw_types[s] : s \in DOMAIN draw_types},
                 pick : {3, 4}]
    /\ res = NoRes
    /\ file = FileAbsent
    /\ data = Blank
    /\ X = Blank
    /\ cleaned = Blank
    /\ loaded = Blank
    /\ NoBackfill

\* fetch_il_draw(date, draw_type, pick)
CallFetchIlDraw ==
    /\ pc = "f_start"
    /\ res' = [caller |-> "fetch_il_draw", sg |-> safe_get(req.outs),
               numbers |-> IF fetch_il_draw_raises(req.outs, req.page) THEN PyNone
                           ELSE fetch_il_draw(req.outs, req.page, req.pick),
               skipped |-> FALSE, out |-> <<>>,
               raised |-> fetch_il_draw_raises(req.outs, req.page)]
    /\ pc' = "f_done"
    /\ UNCHANGED <<file, data, store_vars, req, backfill_vars>>

\* fetch_draws(state, draw_type, pick) over one year
CallFetchDrawsYear ==
    /\ pc = "f_start"
    /\ res' = [caller |-> "fetch_draws", sg |-> safe_get(req.outs),
               numbers |-> PyNone,
               skipped |-> year_skipped(safe_get(req.outs).ret),
               out |-> fetch_draws_year(safe_get(req.outs).ret, req.rows,
                                        req.draw_type, req.pick).out,
               raised |-> fetch_draws_year(safe_get(req.outs).ret, req.rows,
                                           req.draw_type, req.pick).raised]
    /\ pc' = "f_done"
    /\ UNCHANGED <<file, data, store_vars, req, backfill_vars>>

NextFetch == CallFetchIlDraw \/ CallFetchDrawsYear

SpecFetch == InitFetch /\ [][NextFetch]_vars

-----------------------------------------------------------------------------
(* Claims about the fetch client *)

Count(log, what) == Cardinality({i \in DOMAIN log : log[i] = what})

\* the caller took the result for "no data"
ReportedFailure ==
    IF res.caller = "fetch_il_draw" THEN res.numbers = PyNone ELSE res.skipped

\* C1: when the upstream answers 404, safe_get makes one attempt and no
\* delay, and the caller reports no data.
C1_NotFoundShortCircuit ==
    (pc = "f_done" /\ req.outs[1] = [kind |-> "resp", status |-> 404]) =>
        /\ Count(res.sg.log, "get") = 1
        /\ Count(res.sg.log, "sleep") = 0
        /\ ReportedFailure

Transient(o) == o.kind = "error" \/ o.status \notin {200, 404}

\* get, then (sleep, get) k - 1 times
RECURSIVE AttemptsLog(_)
AttemptsLog(k) ==
    IF k = 1 THEN <<"get">> ELSE AttemptsLog(k - 1) \o <<"sleep", "get">>

\* C2: only transient failures: 3 attempts, 2 delays, each delay between two
\* attempts, and the caller takes the result as failure; status 200 on
\* attempt k after transient failures: k attempts and k - 1 delays.
C2_RetryBudget ==
    pc = "f_done" =>
        /\ (\A a \in 1..max_retries : Transient(req.outs[a])) =>
              /\ Count(res.sg.log, "get") = 3
              /\ Count(res.sg.log, "sleep") = 2
              /\ res.sg.log = <<"get", "sleep", "get", "sleep", "get">>
              /\ ReportedFailure
        /\ \A k \in 1..max_retries :
              ( /\ req.outs[k] = [kind |-> "resp", status |-> 200]
                /\ \A a \in 1..(k - 1) : Transient(req.outs[a]) ) =>
                  /\ Count(res.sg.log, "get") = k
                  /\ Count(res.sg.log, "sleep") = k - 1
                  /\ res.sg.log = AttemptsLog(k)
                  /\ res.sg.ret.status = 200

C2_Witness ==
    /\ pc = "f_done"
    /\ req.outs = <<[kind |-> "resp", status |-> 500],
                    [kind |-> "error", status |-> 0],
                    [kind |-> "resp", status |-> 500]>>
    /\ Count(res.sg.log, "get") = 3
    /\ ReportedFailure

-----------------------------------------------------------------------------
(* Claims about the store *)

\* the slot value a raw store holds at (game, date, slot), if it holds one
HasSlot(s, game, date, slot) ==
    /\ s.t = "dict" /\ HasKey(s.items, game)
    /\ GetKey(s.items, game).t = "dict"
    /\ HasKey(GetKey(s.items, game).items, date)
    /\ GetKey(GetKey(s.items, game).items, date).t = "dict"
    /\ HasKey(GetKey(GetKey(s.items, game).items, date).items, slot)

SlotOf(s, game, date, slot) ==
    GetKey(GetKey(GetKey(s.items, game).items, date).items, slot)

\* the pick-size a game key stands for
ImpliedPick(game) ==
    IF game = <<"p", "i", "c", "k", "4">> THEN 4
    ELSE IF game = <<"p", "i", "c", "k", "3">> THEN 3
    ELSE pick_of_game(game)

\* every slot is a list of ImpliedPick ints (a bool is an int to Python's
\* isinstance), and no date is left without a slot
StoreIsClean(s) ==
    /\ s.t = "dict"
    /\ \A i \in DOMAIN s.items :
         LET game == s.items[i][1]
             dates == s.items[i][2]
         IN /\ dates.t = "dict"
            /\ \A j \in DOMAIN dates.items :
                 LET draws == dates.items[j][2]
                 IN /\ draws.t = "dict"
                    /\ draws.items # <<>>
                    /\ \A n \in DOMAIN draws.items :
                         LET numbers == draws.items[n][2]
                         IN /\ numbers.t = "list"
                            /\ Len(numbers.items) = ImpliedPick(game)
                            /\ \A m \in DOMAIN numbers.items :
                                 numbers.items[m].k \in {"int", "bool"}

C7_Example ==
    PyDict(<< <<game_key(3),
                PyDict(<< <<(<<1, 1, 2024>>),
                            PyDict(<< <<"midday",
                                        PyList(<<PyInt(1), PyInt(2), PyStr>>)>> >>)>> >>)>> >>)

\* C7: the output of clean_il_data, the store the file holds after
\* save_il_data and the store load_il_data returns hold only slots that are
\* lists of integers of the game's pick-size, and no date without a slot;
\* {"pick3": {"01-01-2024": {"midday": [1,2,"x"]}}} cleans to {"pick3": {}}.
C7_CleaningInvariant ==
    /\ pc \in {"x_cleaned", "x_saved", "x_loaded"} =>
         /\ StoreIsClean(cleaned)
         /\ X = C7_Example => cleaned = PyDict(<< <<game_key(3), PyDict(<<>>)>> >>)
    /\ pc \in {"x_saved", "x_loaded"} =>
         file.st = "json" /\ StoreIsClean(json_load(file.doc))
    /\ pc = "x_loaded" => StoreIsClean(loaded)

C7_Witness ==
    /\ pc = "x_loaded"
    /\ X = C7_Example
    /\ loaded = PyDict(<< <<game_key(3), PyDict(<<>>)>> >>)

\* C8: a slot value of the wrong length or with a non-integer member is left
\* out of the output of clean_il_data, and a slot value in the output is the
\* input's value for that game, date and slot, unmodified.
C8_DropNeverRepair ==
    pc = "x_cleaned" =>
        \A game \in {game_key(3), game_key(4)}, date \in ExampleDateKeys,
           slot \in {"midday", "evening"} :
            HasSlot(X, game, date, slot) =>
                LET v == SlotOf(X, game, date, slot)
                    bad == \/ v.t # "list"
                           \/ Len(v.items) # ImpliedPick(game)
                           \/ \E m \in DOMAIN v.items :
                                v.items[m].k \notin {"int", "bool"}
                IN /\ bad => ~HasSlot(cleaned, game, date, slot)
                   /\ HasSlot(cleaned, game, date, slot) =>
                        SlotOf(cleaned, game, date, slot) = v

\* C9: load_il_data() after save_il_data(clean_il_data(X)) returns a store
\* equal (Python ==) to clean_il_data(X).
C9_RoundTrip == pc = "x_loaded" => PyEq(loaded, cleaned)

C9_Witness ==
    /\ pc = "x_loaded"
    /\ \E game \in {game_key(3), game_key(4)}, date \in ExampleDateKeys :
         /\ HasSlot(X, game, date, "midday")
         /\ ~HasSlot(loaded, game, date, "midday")
         /\ HasSlot(loaded, game, date, "evening")

-----------------------------------------------------------------------------
(* The upstream and the cache files of the backfill runs *)

\* datetime.today() of the runs
Todays == {<<2024, 6, 2>>, <<2024, 1, 1>>}

\* the largest IL_BACKFILL_DAYS, the most URLs the upstream fails, and the
\* most fetch_draws_il calls of one behaviour
MaxLookback == 1
MaxDown == 1
MaxCalls == 2

\* A URL /illinois/pick-{pick}-{draw_type}/numbers/{date} is
\* <<pick, draw_type, date>>.  The upstream answers a URL the same way every
\* time: a URL in `down` fails the way `kind` says, any other URL answers
\* 200 with a page of pick balls.  A "short" page lacks the last ball, a
\* "superscript" page has a superscript two for its last ball.
FailKinds == {"http500", "timeout", "notfound", "short", "superscript"}

good_page(url) ==
    [i \in 1..url[1] |->
        Ball((i + url[3][2] + (IF url[2] = "evening" THEN 5 ELSE 0)) % 10)]

always(o) == [a \in 1..max_retries |-> o]

answer(up, url) ==
    IF url \notin up.down
    THEN [outs |-> always([kind |-> "resp", status |-> 200]), page |-> good_page(url)]
    ELSE CASE up.kind = "http500" ->
                [outs |-> always([kind |-> "resp", status |-> 500]), page |-> <<>>]
           [] up.kind = "timeout" ->
                [outs |-> always([kind |-> "error", status |-> 0]), page |-> <<>>]
           [] up.kind = "notfound" ->
                [outs |-> always([kind |-> "resp", status |-> 404]), page |-> <<>>]
           [] up.kind = "superscript" ->
                [outs |-> always([kind |-> "resp", status |-> 200]),
                 page |-> [good_page(url) EXCEPT ![url[1]] = SupBall]]
           [] OTHER ->
                [outs |-> always([kind |-> "resp", status |-> 200]),
                 page |-> SubSeq(good_page(url), 1, url[1] - 1)]

window_urls(today, n) ==
    {<<picks[p], draw_types[s], strftime_key(minus_days(today, k))>> :
        p \in DOMAIN picks, s \in DOMAIN draw_types, k \in 0..n}

Upstreams(today, n) ==
    {[down |-> {}, kind |-> "ok"]}
    \cup {[down |-> D, kind |-> k] :
            D \in {S \in SUBSET window_urls(today, n) :
                     Cardinality(S) \in 1..MaxDown},
            k \in FailKinds}

L123 == PyList(<<PyInt(1), PyInt(2), PyInt(3)>>)
L1234 == PyList(<<PyInt(1), PyInt(2), PyInt(3), PyInt(4)>>)
L1x23 == PyList(<<PyInt(1), PyStr, PyInt(2), PyInt(3)>>)

SlotEntry(game, date, slot, value) ==
    [kind |-> "slot", game |-> game, date |-> date, slot |-> slot, value |-> value]

\* {"pick3": {"06-01-2024": {"midday": [1, 2, 3]}}}
JuneStore ==
    PyDict(store_of(<<SlotEntry(game_key(3), <<6, 1, 2024>>, "midday", L123)>>))

\* the contents illinois_draws.json starts with
CacheFiles ==
    { FileAbsent,
      FileUnparsable,
      FileJson(json_dump(JuneStore)),
      FileJson(json_dump(PyDict(store_of(
          <<SlotEntry(game_key(4), <<12, 31, 2023>>, "evening", L1234),
            SlotEntry(game_key(4), <<12, 31, 2023>>, "midday", L1x23),
            SlotEntry(game_key(3), <<1, 1, 2024>>, "evening", L1x23)>>)))),
      FileJson(json_dump(PyDict(store_of(
          <<SlotEntry(game_key(3), <<12, 30, 2023>>, "midday", L123),
            SlotEntry(game_key(3), <<6, 2, 2023>>, "evening", L123)>>)))),
      FileJson(json_dump(PyDict(<< <<game_key(3), PyScalar>> >>))) }

-----------------------------------------------------------------------------
(* update_il_data_to_current and fetch_draws_il *)

\* only a negative length returns early
skip_backfill_negative(backfill_days) == backfill_days < 0

\* `if backfill_days <= 0: return data`
skip_backfill(backfill_days) == backfill_days <= 0

\* data.setdefault(game_key, {}); data[game_key].setdefault(date_str, {})
with_defaults(items, game, date_str) ==
    LET g == SetDefault(items, game)
    IN SetKey(g, game, PyDict(SetDefault(GetKey(g, game).items, date_str)))

\* every cell taken for missing
cell_present_never(items, game, date_str, draw_type) == FALSE

\* the test of `if draw_type not in data[game_key][date_str]`, negated
cell_present(items, game, date_str, draw_type) ==
    HasKey(GetKey(GetKey(items, game).items, date_str).items, draw_type)

\* the dict of the date replaced by one that holds the new cell only
set_cell_alone(items, game, date_str, draw_type, numbers) ==
    SetKey(items, game,
        PyDict(SetKey(GetKey(items, game).items, date_str,
                      PyDict(<< <<draw_type, numbers>> >>))))

\* data[game_key][date_str][draw_type] = numbers
set_cell(items, game, date_str, draw_type, numbers) ==
    LET g == GetKey(items, game).items
        d == GetKey(g, date_str).items
    IN SetKey(items, game,
           PyDict(SetKey(g, date_str, PyDict(SetKey(d, draw_type, numbers)))))

\* the loops: draw_type innermost, then pick, then date += timedelta(days=1)
next_cur(c) ==
    IF c.s < Len(draw_types) THEN [c EXCEPT !.s = c.s + 1]
    ELSE IF c.p < Len(picks) THEN [c EXCEPT !.p = c.p + 1, !.s = 1]
    ELSE [date |-> next_day(c.date), p |-> 1, s |-> 1]

\* the records fetch_draws_il builds from the sorted items of one game
RECURSIVE il_records(_, _, _)
il_records(dates, draw_type, pick) ==
    IF dates = <<>> THEN <<>>
    ELSE LET date_str == Head(dates)[1]
             draws_dict == Head(dates)[2]
             dt == strptime_key(date_str)
             rest == il_records(Tail(dates), draw_type, pick)
         IN IF ~HasKey(draws_dict.items, draw_type) THEN rest
            ELSE IF Len(GetKey(draws_dict.items, draw_type).items) # pick THEN rest
            ELSE << [dt |-> dt,
                     date_str |-> <<dt[2], dt[3], dt[1], draw_type>>,
                     slot |-> draw_type,
                     numbers |-> GetKey(draws_dict.items, draw_type)] >> \o rest

\* fetch_draws_il after update_il_data_to_current returned d
fetch_draws_il(d, draw_type, pick) ==
    IF ~HasKey(d.items, game_key(pick)) THEN <<>>
    ELSE il_records(sorted(GetKey(d.items, game_key(pick)).items), draw_type, pick)

\* run_lotto_analysis calls fetch_draws(state, draw_type, pick) in this order
call_args(n) ==
    << <<"midday", 3>>, <<"evening", 3>>, <<"midday", 4>>, <<"evening", 4>> >>[((n - 1) % 4) + 1]

Event(ev, c, ok, gets) ==
    [ev |-> ev, pick |-> picks[c.p], date |-> c.date, slot |-> draw_types[c.s],
     ok |-> ok, gets |-> gets]

Filled(evs) ==
    {<<evs[i].pick, evs[i].date, evs[i].slot>> :
        i \in {j \in DOMAIN evs : evs[j].ev = "fetch" /\ evs[j].ok}}

\* env.backfill_days is the int that int(os.getenv("IL_BACKFILL_DAYS", "30"))
\* gave; the default of 30 days lies beyond MaxLookback.
Init ==
    /\ pc = "idle"
    /\ env \in [today : Todays, backfill_days : (-1)..MaxLookback]
    /\ upstream \in Upstreams(env.today, env.backfill_days)
    /\ file \in CacheFiles
    /\ data = Blank
    /\ cur = NoCur
    /\ call = 0
    /\ events = <<>>
    /\ hist = [NoHist EXCEPT !.start = file,
                  !.durable = IF load_raises(file) THEN Blank ELSE load_il_data(file)]
    /\ ret = NoRet
    /\ X = Blank
    /\ cleaned = Blank
    /\ loaded = Blank
    /\ req = NoReq
    /\ res = NoRes

\* fetch_draws_il calls update_il_data_to_current: load_il_data, today,
\* backfill_days, the early return, start_date
StartCall ==
    /\ pc \in {"idle", "returned", "killed"}
    /\ call < MaxCalls
    /\ call' = call + 1
    /\ events' = <<>>
    /\ IF load_raises(file)
       THEN /\ pc' = "raised"
            /\ UNCHANGED <<data, cur, hist, ret>>
       ELSE /\ data' = load_il_data(file)
            /\ hist' = [hist EXCEPT !.start = file, !.loaded = data',
                                    !.durable = data']
            /\ IF skip_backfill(env.backfill_days)
               THEN /\ pc' = "assemble"
                    /\ ret' = [ret EXCEPT !.data = data']
                    /\ UNCHANGED cur
               ELSE /\ pc' = "scan"
                    /\ cur' = [date |-> minus_days(env.today, env.backfill_days),
                               p |-> 1, s |-> 1]
                    /\ UNCHANGED ret
    /\ UNCHANGED <<file, store_vars, fetch_vars, env, upstream>>

\* one pass of the innermost loop over a cell the store holds
SkipCell ==
    /\ pc = "scan"
    /\ dt_le(cur.date, env.today)
    /\ LET game == game_key(picks[cur.p])
           date_str == strftime_key(cur.date)
           items == with_defaults(data.items, game, date_str)
       IN /\ cell_present(items, game, date_str, draw_types[cur.s])
          /\ data' = PyDict(items)
    /\ cur' = next_cur(cur)
    /\ UNCHANGED <<pc, file, store_vars, fetch_vars, env, upstream, call, events,
                   hist, ret>>

\* one pass of the innermost loop over a cell the store lacks: fetch_il_draw,
\* and on numbers the assignment; save_il_data follows in SaveOpen, SaveWrite.
\* A ValueError of fetch_il_draw is caught nowhere and ends the run.
FetchCell ==
    /\ pc = "scan"
    /\ dt_le(cur.date, env.today)
    /\ LET pick == picks[cur.p]
           game == game_key(pick)
           date_str == strftime_key(cur.date)
           draw_type == draw_types[cur.s]
           items == with_defaults(data.items, game, date_str)
           ans == answer(upstream, <<pick, draw_type, date_str>>)
           numbers == fetch_il_draw(ans.outs, ans.page, pick)
           gets == Count(safe_get(ans.outs).log, "get")
       IN /\ ~cell_present(items, game, date_str, draw_type)
          /\ IF fetch_il_draw_raises(ans.outs, ans.page)
             THEN /\ events' = Append(events, Event("fetch", cur, FALSE, gets))
                  /\ data' = PyDict(items)
                  /\ pc' = "raised"
                  /\ UNCHANGED cur
             ELSE /\ events' = Append(events, Event("fetch", cur, Truthy(numbers), gets))
                  /\ IF Truthy(numbers)
                     THEN /\ data' = PyDict(set_cell(items, game, date_str,
                                                     draw_type, numbers))
                          /\ pc' = "save_open"
                          /\ UNCHANGED cur
                     ELSE /\ data' = PyDict(items)
                          /\ cur' = next_cur(cur)
                          /\ UNCHANGED pc
    /\ UNCHANGED <<file, store_vars, fetch_vars, env, upstream, call, hist, ret>>

\* save_il_data(data) after a fill: clean_il_data, open(IL_DATA_FILE, "w")
SaveOpen ==
    /\ pc = "save_open"
    /\ ~save_raises(data)
    /\ file' = save_opened(file)
    /\ pc' = "save_write"
    /\ UNCHANGED <<data, store_vars, fetch_vars, backfill_vars>>

\* json.dump and the close of the file; the loop goes on
SaveWrite ==
    /\ pc = "save_write"
    /\ file' = save_written(data)
    /\ events' = Append(events, Event("saved", cur, TRUE, 0))
    /\ hist' = [hist EXCEPT !.durable = clean_il_data(data)]
    /\ cur' = next_cur(cur)
    /\ pc' = "scan"
    /\ UNCHANGED <<data, store_vars, fetch_vars, env, upstream, call, ret>>

\* the while loop ends; the last save_il_data(data) opens the file
FinalOpen ==
    /\ pc = "scan"
    /\ ~dt_le(cur.date, env.today)
    /\ ~save_raises(data)
    /\ file' = save_opened(file)
    /\ pc' = "final_write"
    /\ UNCHANGED <<data, store_vars, fetch_vars, backfill_vars>>

\* the last save_il_data(data) writes the file; `return data`
FinalWrite ==
    /\ pc = "final_write"
    /\ file' = save_written(data)
    /\ hist' = [hist EXCEPT !.durable = clean_il_data(data)]
    /\ ret' = [ret EXCEPT !.data = data]
    /\ pc' = "assemble"
    /\ UNCHANGED <<data, store_vars, fetch_vars, env, upstream, cur, call, events>>

\* the rest of fetch_draws_il: the records of the game and the slot asked for
Assemble ==
    /\ pc = "assemble"
    /\ ret' = [ret EXCEPT !.records =
                 fetch_draws_il(ret.data, call_args(call)[1], call_args(call)[2])]
    /\ hist' = [hist EXCEPT !.prev =
                  [done |-> TRUE, file |-> file, filled |-> Filled(events)]]
    /\ pc' = "returned"
    /\ UNCHANGED <<file, data, store_vars, fetch_vars, env, upstream, cur, call,
                   events>>

Next ==
    \/ StartCall
    \/ SkipCell
    \/ FetchCell
    \/ SaveOpen
    \/ SaveWrite
    \/ FinalOpen
    \/ FinalWrite
    \/ Assemble

Spec == Init /\ [][Next]_vars

\* The process is killed from outside while update_il_data_to_current runs;
\* what it held in memory is gone, the file stays as it is.
Kill ==
    /\ pc \in {"scan", "save_open", "save_write", "final_write"}
    /\ pc' = "killed"
    /\ data' = Blank
    /\ hist' = [hist EXCEPT !.prev = NoHist.prev]
    /\ UNCHANGED <<file, store_vars, fetch_vars, env, upstream, cur, call, events,
                   ret>>

NextKill == Next \/ Kill

SpecKill == Init /\ [][NextKill]_vars

-----------------------------------------------------------------------------
(* Claims about the backfill *)

\* update_il_data_to_current is running, or has just returned
InUpdate == pc \in {"scan", "save_open", "save_write", "final_write", "assemble"}

EventCell(e) == <<e.pick, e.date, e.slot>>

\* C3: in a second run after a finished one, with the same today, lookback
\* and upstream, no fetch succeeds, no cell the first run filled is fetched,
\* and the run leaves the cache file as the first run left it.
C3_BackfillIdempotent ==
    (InUpdate /\ hist.prev.done) =>
        /\ \A i \in DOMAIN events :
             events[i].ev = "fetch" =>
                 ~events[i].ok /\ EventCell(events[i]) \notin hist.prev.filled
        /\ pc = "assemble" => file = hist.prev.file

C3_Witness ==
    /\ pc = "assemble"
    /\ hist.prev.done
    /\ hist.prev.filled # {}
    /\ events # <<>>
    /\ file.st = "json"

\* the <<date, slot>> of the saves of one pick-size, in the order made
RECURSIVE SavedOf(_, _)
SavedOf(evs, pick) ==
    IF evs = <<>> THEN <<>>
    ELSE (IF Head(evs).ev = "saved" /\ Head(evs).pick = pick
          THEN << <<Head(evs).date, Head(evs).slot>> >> ELSE <<>>)
         \o SavedOf(Tail(evs), pick)

JuneExample ==
    /\ env = [today |-> <<2024, 6, 2>>, backfill_days |-> 1]
    /\ hist.start = FileJson(json_dump(JuneStore))
    /\ upstream.down = {}
    /\ call = 1
    /\ pc = "assemble"

\* C4: cells are fetched in ascending date order, midday before evening
\* within a date and pick-size; a cell the loaded store holds is not fetched;
\* a fetched cell is in the cache file before the next fetch is issued; with
\* only pick3 06-01 midday present and every fetch succeeding over
\* 06-01..06-02, the pick3 saves are 06-01 evening, 06-02 midday, 06-02 evening.
C4_PersistAfterEachFill ==
    /\ \A i, j \in DOMAIN events :
         (i < j /\ events[i].ev = "fetch" /\ events[j].ev = "fetch") =>
             /\ dt_le(events[i].date, events[j].date)
             /\ (events[i].date = events[j].date /\ events[i].pick = events[j].pick) =>
                  (events[i].slot = "midday" /\ events[j].slot = "evening")
    /\ \A i \in DOMAIN events :
         events[i].ev = "fetch" =>
             ~HasSlot(hist.loaded, game_key(events[i].pick),
                      strftime_key(events[i].date), events[i].slot)
    /\ \A i \in DOMAIN events :
         (events[i].ev = "fetch" /\ events[i].ok) =>
             IF i = Len(events) THEN pc \in {"save_open", "save_write"}
             ELSE /\ events[i + 1].ev = "saved"
                  /\ EventCell(events[i + 1]) = EventCell(events[i])
    /\ pc \in {"scan", "assemble", "returned"} =>
         \A i \in DOMAIN events :
             events[i].ev = "saved" =>
                 /\ file.st = "json"
                 /\ HasSlot(json_load(file.doc), game_key(events[i].pick),
                            strftime_key(events[i].date), events[i].slot)
    /\ JuneExample =>
         SavedOf(events, 3) = << <<(<<2024, 6, 1>>), "evening">>,
                                 <<(<<2024, 6, 2>>), "midday">>,
                                 <<(<<2024, 6, 2>>), "evening">> >>

C4_Witness == JuneExample /\ Len(events) = 14

\* every slot of the store `small` is a slot of `big`, with the same digits
HoldsAll(big, small) ==
    \A i \in DOMAIN small.items :
        LET game == small.items[i][1]
            dates == small.items[i][2].items
        IN \A j \in DOMAIN dates :
            LET date == dates[j][1]
                draws == dates[j][2].items
            IN \A n \in DOMAIN draws :
                /\ HasSlot(big, game, date, draws[n][1])
                /\ SlotOf(big, game, date, draws[n][1]) = draws[n][2]

\* C5: after a kill at any point of a run, the cache file loads to a store
\* that holds every cell persisted before the kill, with the same digits.
C5_KillLosesNothing ==
    pc = "killed" =>
        /\ ~load_raises(file)
        /\ HoldsAll(load_il_data(file), hist.durable)

\* C6: the records fetch_draws_il returns are in non-decreasing order of dt.
C6_AssembleOrdered ==
    pc = "returned" =>
        \A i, j \in DOMAIN ret.records :
            i < j => dt_le(ret.records[i].dt, ret.records[j].dt)

\* C10: with IL_BACKFILL_DAYS = 0 update_il_data_to_current fetches nothing,
\* leaves the cache file as it was and returns what load_il_data returned.
C10_LookbackZero ==
    (pc \in {"assemble", "returned"} /\ env.backfill_days = 0) =>
        /\ events = <<>>
        /\ file = hist.start
        /\ ret.data = load_il_data(hist.start)

C10_Witness ==
    /\ pc = "returned"
    /\ env.backfill_days = 0
    /\ \E i \in DOMAIN ret.data.items : ret.data.items[i][2].items # <<>>

\* the URL a fetch event asked for
UrlOf(e) == <<e.pick, e.slot, strftime_key(e.date)>>

\* the store holds the cell the event is about
HasCell(s, e) == HasSlot(s, game_key(e.pick), strftime_key(e.date), e.slot)

\* the fetches of this run that the upstream failed
FailedFetches ==
    {i \in DOMAIN events :
        events[i].ev = "fetch" /\ UrlOf(events[i]) \in upstream.down}

\* C11: a cell whose fetch or parse fails stays absent from the in-memory
\* store and from the cache file, the run is not aborted by it, and a run
\* that walked the window has fetched every cell the loaded store lacked.
C11_FailureIsolation ==
    /\ \A i \in FailedFetches :
          /\ ~HasCell(data, events[i])
          /\ ~load_raises(file) => ~HasCell(load_il_data(file), events[i])
          /\ pc # "raised"
    /\ (pc \in {"assemble", "returned"} /\ ~skip_backfill(env.backfill_days)) =>
          \A url \in window_urls(env.today, env.backfill_days) :
              \/ HasSlot(hist.loaded, game_key(url[1]), url[3], url[2])
              \/ \E i \in DOMAIN events :
                    events[i].ev = "fetch" /\ UrlOf(events[i]) = url

\* C12: a run that starts with an absent or unparsable cache file does not
\* fail in load_il_data, loads the empty store, and goes on as from an empty
\* store: it returns, and leaves in the file, the cells the upstream serves.
C12_CorruptCacheRecovered ==
    (call >= 1 /\ hist.start.st \in {"absent", "unparsable"}) =>
        /\ ~(pc = "raised" /\ events = <<>>)
        /\ hist.loaded = Blank
        /\ (pc = "assemble" /\ skip_backfill(env.backfill_days)) =>
              ret.data = Blank /\ file = hist.start
        /\ (pc = "assemble" /\ ~skip_backfill(env.backfill_days)) =>
              /\ \A url \in window_urls(env.today, env.backfill_days) :
                    HasSlot(ret.data, game_key(url[1]), url[3], url[2])
                        <=> url \notin upstream.down
              /\ file = save_written(ret.data)

C12_Witness ==
    /\ pc = "assemble"
    /\ hist.start.st = "unparsable"
    /\ FailedFetches # {}
    /\ \E i \in DOMAIN events : events[i].ev = "saved"

-----------------------------------------------------------------------------
(* Claims about the order and the pick-size of cleaning *)

\* the date keys of every game of store s ascend as dates
DatesAscend(s) ==
    \A g \in DOMAIN s.items :
        LET dates == s.items[g][2].items
        IN \A i, j \in DOMAIN dates :
              i < j => dt_less(strptime_key(dates[i][1]), strptime_key(dates[j][1]))

\* C13: in the store clean_il_data returns, and in the store loaded back
\* from the file written of it, the date keys of each game are in ascending
\* chronological order.
C13_StoreDateOrder ==
    /\ pc \in {"x_cleaned", "x_saved", "x_loaded"} => DatesAscend(cleaned)
    /\ pc = "x_loaded" => DatesAscend(loaded)

\* C14: cleaning what clean_il_data returned gives it back unchanged, the
\* order of the games, dates and slots included.
C14_CleanIdempotent ==
    pc = "x_cleaned" =>
        /\ ~clean_raises(cleaned)
        /\ clean_il_data(cleaned) = cleaned

\* an input of two dates out of order, of which cleaning dropped something
C14_Witness ==
    /\ pc = "x_cleaned"
    /\ cleaned # X
    /\ \E g \in DOMAIN cleaned.items :
          /\ Len(cleaned.items[g][2].items) = 2
          /\ X.items[g][2].items[1][1] = cleaned.items[g][2].items[2][1]

Contains(game, ch) == \E i \in DOMAIN game : game[i] = ch

\* every slot of the input that sits in a dict of a dict is kept by
\* cleaning exactly when it is a list whose integers number size(game)
KeptBySize(size(_)) ==
    \A g \in DOMAIN X.items :
        LET game == X.items[g][1]
            dates == X.items[g][2]
        IN dates.t = "dict" =>
             \A d \in DOMAIN dates.items :
                LET date == dates.items[d][1]
                    draws == dates.items[d][2]
                IN draws.t = "dict" =>
                     \A n \in DOMAIN draws.items :
                        LET v == draws.items[n][2]
                        IN HasSlot(cleaned, game, date, draws.items[n][1])
                             <=> (v.t = "list" /\ Len(nums_of(v)) = size(game))

FourIfFour(game) == IF Contains(game, "4") THEN 4 ELSE 3
ThreeIfThree(game) == IF Contains(game, "3") THEN 3 ELSE 4

\* C15: clean_il_data keeps the slots of a game whose integers number 4 if
\* the game key contains "4", and 3 otherwise.
C15_PickSizeRule == pc = "x_cleaned" => KeptBySize(FourIfFour)

\* C15 as the code has it: clean_il_data keeps the slots of a game whose
\* integers number 3 if the game key contains "3", and 4 otherwise.
C15_PickSizeRuleOfCode == pc = "x_cleaned" => KeptBySize(ThreeIfThree)

\* a key with neither digit kept with four integers, one with both with three
C15_Witness ==
    /\ pc = "x_cleaned"
    /\ \E g \in DOMAIN cleaned.items :
          /\ ~Contains(cleaned.items[g][1], "3")
          /\ ~Contains(cleaned.items[g][1], "4")
          /\ HasSlot(cleaned, cleaned.items[g][1], <<1, 1, 2024>>, "midday")
    /\ \E g \in DOMAIN cleaned.items :
          /\ Contains(cleaned.items[g][1], "3")
          /\ Contains(cleaned.items[g][1], "4")
          /\ HasSlot(cleaned, cleaned.items[g][1], <<1, 1, 2024>>, "midday")

-----------------------------------------------------------------------------
(* Claims about the walk of the window *)

FetchEvents == {i \in DOMAIN events : events[i].ev = "fetch"}

\* the fetches of the run so far: no cell twice, every cell within
\* today - L .. today, at most 4 * (L + 1) of them, at most 3 GETs each
FetchesBounded ==
    /\ \A i, j \in FetchEvents :
          i # j => EventCell(events[i]) # EventCell(events[j])
    /\ \A i \in FetchEvents :
          /\ dt_le(minus_days(env.today, env.backfill_days), events[i].date)
          /\ dt_le(events[i].date, env.today)
          /\ events[i].gets <= 3
    /\ Cardinality(FetchEvents) <= 4 * (env.backfill_days + 1)

Running == pc \in {"scan", "save_open", "save_write", "final_write"}

\* the days from d through today
RECURSIVE DaysThrough(_, _)
DaysThrough(d, today) ==
    IF dt_less(today, d) THEN 0 ELSE 1 + DaysThrough(next_day(d), today)

\* the passes of the innermost loop still to make, cur included
CellsLeft ==
    IF DaysThrough(cur.date, env.today) = 0 THEN 0
    ELSE 4 * DaysThrough(cur.date, env.today) - (2 * (cur.p - 1) + (cur.s - 1))

\* a natural number that every step of a run lowers
Rank ==
    CASE pc = "scan" -> 3 * CellsLeft + 2
      [] pc = "save_open" -> 3 * CellsLeft + 1
      [] pc = "save_write" -> 3 * CellsLeft
      [] pc = "final_write" -> 1
      [] OTHER -> 0

\* the run has a next step; the two writes wait for nothing
HasNextStep ==
    \/ pc \in {"save_write", "final_write"}
    \/ ENABLED (SkipCell \/ FetchCell \/ FinalOpen \/ SaveOpen)

\* C16: a backfill run with lookback L > 0 comes to its end: it always has
\* a next step and every step lowers a rank that is a natural number; and at
\* every point of it the cells fetched so far are distinct cells of the
\* dates today - L .. today, at most 4 * (L + 1) in number, each fetched
\* with at most 3 HTTP attempts.
C16_TerminationAndFetchBound ==
    /\ [](env.backfill_days > 0 => FetchesBounded)
    /\ [](Running => (Rank >= 0 /\ HasNextStep))
    /\ [][Running => Rank' < Rank]_vars

\* a run over two days that fetched all eight cells, one of them in vain
\* after three attempts
C16_Witness ==
    /\ pc = "assemble"
    /\ env.backfill_days = MaxLookback
    /\ Cardinality(FetchEvents) = 4 * (MaxLookback + 1)
    /\ \E i \in FetchEvents : ~events[i].ok /\ events[i].gets = 3

-----------------------------------------------------------------------------
(* Claims about what a run keeps *)

\* the cache file is one this run wrote
WrittenInRun ==
    /\ call >= 1
    /\ file.st = "json"
    /\ \/ file # hist.start
       \/ pc \in {"assemble", "returned"} /\ ~skip_backfill(env.backfill_days)

\* C17: every cell of the store load_il_data gave the run is held, with the
\* same digits, by the in-memory store throughout the run, by every cache
\* file the run wrote and by the store it returns; and what a run has
\* persisted holds, with the same digits, everything persisted before.
C17_CellsKept ==
    /\ [](/\ (Running \/ pc = "assemble") => HoldsAll(data, hist.loaded)
          /\ WrittenInRun => HoldsAll(json_load(file.doc), hist.loaded)
          /\ pc \in {"assemble", "returned"} => HoldsAll(ret.data, hist.loaded)
          /\ pc \in {"scan", "assemble"} => load_il_data(file) = hist.durable)
    /\ [][call' = call => HoldsAll(hist'.durable, hist.durable)]_vars

\* a run that filled and saved a cell of a date of which the loaded store
\* held the other slot
C17_Witness ==
    /\ pc = "assemble"
    /\ \E i \in FetchEvents :
          /\ events[i].ok
          /\ \E s \in DOMAIN draw_types :
                /\ draw_types[s] # events[i].slot
                /\ HasSlot(hist.loaded, game_key(events[i].pick),
                           strftime_key(events[i].date), draw_types[s])
    /\ \E i \in DOMAIN events : events[i].ev = "saved"

-----------------------------------------------------------------------------
(* Claims about what safe_get returns and what the parsers make of it *)

\* the attempts that obtained a response
Answered == {a \in 1..3 : req.outs[a].kind = "resp"}

RowWellShaped(row, pick) ==
    /\ row.tds >= 2 /\ row.parts >= 4
    /\ row.month \in 1..12 /\ row.year \in 1..9999
    /\ row.day \in 1..days_in_month(row.year, row.month)
    /\ Cardinality({i \in DOMAIN row.tokens : row.tokens[i].k = "digits"}) >= pick

\* C19: neither parser ends in an error; fetch_il_draw returns numbers only
\* when the page has exactly pick digit balls, and fetch_draws returns one
\* record for each well-shaped row of a fetched year and skips the others.
C19_ParsersNeverRaise ==
    pc = "f_done" =>
        /\ ~res.raised
        /\ (res.caller = "fetch_il_draw" /\ res.numbers # PyNone) =>
              /\ Len(res.numbers.items) = req.pick
              /\ Cardinality({i \in DOMAIN req.page : req.page[i].k = "digits"})
                    = req.pick
        /\ (res.caller = "fetch_draws" /\ ~res.skipped) =>
              Len(res.out) = Cardinality({i \in DOMAIN req.rows :
                                            RowWellShaped(req.rows[i], req.pick)})

\* every member of the list is an integer from 0 through 9
DigitsOnly(numbers) ==
    \A i \in DOMAIN numbers.items :
        numbers.items[i].k = "int" /\ numbers.items[i].v \in 0..9

\* C20: the numbers fetch_il_draw returns, which are the ones stored and
\* returned by fetch_draws_il, and the numbers of every record fetch_draws
\* returns are integers from 0 through 9, whatever the page holds.
C20_DigitRange ==
    pc = "f_done" =>
        /\ res.numbers # PyNone => DigitsOnly(res.numbers)
        /\ \A r \in DOMAIN res.out : DigitsOnly(res.out[r].numbers)

=============================================================================
